---- MODULE Spec2Model ----
(***************************************************************************)
(* Magnetometer telemetry firmware (src/main.c, src/parser.c): the frame   *)
(* parser, the payload integer conversion, the two interrupt-shared ring   *)
(* buffers, the sensor window and the counter-based scheduler.             *)
(*                                                                         *)
(* Characters are one-character strings; the C string terminator '\0' is   *)
(* the empty string NUL.  C arrays are functions over 0..len-1.            *)
(***************************************************************************)
EXTENDS Integers, Sequences, FiniteSets, TLC

VARIABLES
    pstate,     \* parser_state pstate of main (main.c:168)
    ret,        \* value returned by the last call of parse_byte
    fed,        \* byte handed to the last call of parse_byte
    gphase,     \* sender's position in the frame it is sending
    gT,         \* type characters the sender has sent for the current frame
    gP,         \* payload characters the sender has sent for the current frame
    gcomma,     \* the sender has sent the ',' of the current frame
    gprev,      \* how the sender's previous frame ended in the parser
    nframes,    \* number of frames the sender has started
    xstr,       \* text handed to extract_integer
    xret,       \* value extract_integer returned for it
    xcalled,    \* extract_integer has been called on xstr
    mag_readings,           \* struct MagReadings mag_readings (main.c:146)
    avg_reading,            \* struct MagReading avg_reading (main.c:165)
    yaw_deg,                \* int yaw_deg (main.c:166)
    acquired,               \* the last step ran the acquisition block
    LD2_toggle_counter,     \* main.c:159
    acquire_mag_counter,    \* main.c:160
    print_mag_counter,      \* main.c:161
    print_yaw_counter,      \* main.c:162
    print_mag_rate,         \* main.c:144
    LATG9,                  \* LATGbits.LATG9, the status indicator
    UART_input_buff,        \* main.c:50
    UART_output_buff,       \* main.c:55
    UART_INTERRUPT_TX_MANUAL_TRIG,  \* flag raised by the transmit handler
    pc,         \* where the main loop is: "tasks" or "drain"
    now,        \* ticks the main loop has completed
    wire,       \* bytes still to arrive on the receive line
    ctx,        \* context that took the last step: "main", "rx" or "tx"
    rxlog,      \* what the last receive activation was given and found
    txlog,      \* what the last transmit activation found and sent
    dstep,      \* what the last drain iteration did
    emitted,    \* frames the last run of the tasks handed to print_to_buff
    gap,        \* ticks since the last MAG emission
    steady,     \* the rate has not changed since the last MAG emission
    lastGap,    \* spacing and rate of the last MAG emission that followed one
    waited,     \* ticks at a nonzero rate since a MAG emission or a rate change
    stored,     \* bytes the receive handler has stored, in order
    handed      \* bytes the main loop has handed to parse_byte, in order

parserVars == <<pstate, ret, fed>>
senderVars == <<gphase, gT, gP, gcomma, gprev, nframes>>
intVars == <<xstr, xret, xcalled>>
sensorVars == <<mag_readings, avg_reading, yaw_deg, acquired, acquire_mag_counter>>
schedVars == <<LD2_toggle_counter, print_mag_counter, print_yaw_counter,
               print_mag_rate, LATG9>>
ringVars == <<UART_input_buff, UART_output_buff, UART_INTERRUPT_TX_MANUAL_TRIG>>
loopVars == <<pc, now, wire>>
traceVars == <<ctx, rxlog, txlog, dstep, emitted, gap, steady, lastGap>>
auxVars == <<waited, stored, handed>>
vars == <<parserVars, senderVars, intVars, sensorVars, schedVars, ringVars,
          loopVars, traceVars, auxVars>>

\* Variables a run of the sender against the parser leaves alone.
notParserRun == <<intVars, sensorVars, schedVars, ringVars, loopVars, traceVars,
                   auxVars>>

----------------------------------------------------------------------------
(* Bounds of the model                                                     *)

MaxFrames == 2      \* frames one sender run may start
FreeType == 1       \* leading type positions drawn from the whole alphabet
FreePayload == 1    \* leading payload positions drawn from the whole alphabet
ShortLen == 1       \* payload length of the frames before the last one
OverRun == 1        \* characters sent beyond a token's limit
MaxDigits == 5      \* digits of the texts handed to extract_integer
MaxTicks == 210     \* ticks of one run of the main loop
ArriveBy == 21      \* tick by which the last inbound byte has arrived
RxBurst == 2        \* bytes one receive activation finds in the receive path
RingLen == 22       \* bytes of the stream sent to the input ring
TxRoom == 4         \* bytes the transmit path takes in one activation at most
TxFrames == 8       \* rejected frames answered in one run of the transmit path
FineLen == 10       \* pattern bytes that follow the command in the step-by-step runs

----------------------------------------------------------------------------
(* Protocol parser: src/parser.c                                           *)

NUL == ""

STATE_DOLLAR == "STATE_DOLLAR"
STATE_TYPE == "STATE_TYPE"
STATE_PAYLOAD == "STATE_PAYLOAD"
NEW_MESSAGE == "NEW_MESSAGE"
NO_MESSAGE == "NO_MESSAGE"

MAX_TYPE == 6
MAX_PAYLOAD == 100

\* parser_state pstate = {.state = STATE_DOLLAR}: every other member is zero
InitParser ==
    [state |-> STATE_DOLLAR,
     msg_type |-> [i \in 0..MAX_TYPE |-> NUL],
     msg_payload |-> [i \in 0..MAX_PAYLOAD |-> NUL],
     index_type |-> 0,
     index_payload |-> 0]

\* The C string held in array a whose last index is last: the characters
\* before the first NUL (the whole array when it holds none).
CStrLen(a, last) ==
    IF \E k \in 0..last : a[k] = NUL
    THEN CHOOSE k \in 0..last : a[k] = NUL /\ \A j \in 0..(k - 1) : a[j] # NUL
    ELSE last + 1

CStr(a, last) == [i \in 1..CStrLen(a, last) |-> a[i - 1]]

DollarStart(ps) ==
    [ps EXCEPT !.state = STATE_TYPE, !.index_type = 0]

\* TypeComma without the write of the terminator
TypeComma_NoTerminator(ps) ==
    [ps EXCEPT !.state = STATE_PAYLOAD, !.index_payload = 0]

TypeComma(ps) ==
    [ps EXCEPT !.state = STATE_PAYLOAD,
               !.msg_type[ps.index_type] = NUL,
               !.index_payload = 0]

\* TypeOverflow that resets the index but keeps reading the type token
TypeOverflow_KeepState(ps) ==
    [ps EXCEPT !.index_type = 0]

TypeOverflow(ps) ==
    [ps EXCEPT !.state = STATE_DOLLAR, !.index_type = 0]

TypeStar(ps) ==
    [ps EXCEPT !.state = STATE_DOLLAR,
               !.msg_type[ps.index_type] = NUL,
               !.msg_payload[0] = NUL]

TypeAppend(ps, byte) ==
    [ps EXCEPT !.msg_type[ps.index_type] = byte,
               !.index_type = ps.index_type + 1]

PayloadStar(ps) ==
    [ps EXCEPT !.state = STATE_DOLLAR,
               !.msg_payload[ps.index_payload] = NUL]

\* PayloadOverflow that resets the index and keeps reading the payload
PayloadOverflow_KeepState(ps) ==
    [ps EXCEPT !.index_payload = 0]

PayloadOverflow(ps) ==
    [ps EXCEPT !.state = STATE_DOLLAR, !.index_payload = 0]

PayloadAppend(ps, byte) ==
    [ps EXCEPT !.msg_payload[ps.index_payload] = byte,
               !.index_payload = ps.index_payload + 1]

\* int parse_byte(parser_state* ps, char byte): the new parser state and the
\* returned value.
parse_byte(ps, byte) ==
    CASE ps.state = STATE_DOLLAR ->
            IF byte = "$"
            THEN [ps |-> DollarStart(ps), ret |-> NO_MESSAGE]
            ELSE [ps |-> ps, ret |-> NO_MESSAGE]
      [] ps.state = STATE_TYPE ->
            IF byte = ","
            THEN [ps |-> TypeComma(ps), ret |-> NO_MESSAGE]
            ELSE IF ps.index_type = MAX_TYPE
            THEN [ps |-> TypeOverflow(ps), ret |-> NO_MESSAGE]
            ELSE IF byte = "*"
            THEN [ps |-> TypeStar(ps), ret |-> NEW_MESSAGE]
            ELSE [ps |-> TypeAppend(ps, byte), ret |-> NO_MESSAGE]
      [] ps.state = STATE_PAYLOAD ->
            IF byte = "*"
            THEN [ps |-> PayloadStar(ps), ret |-> NEW_MESSAGE]
            ELSE IF ps.index_payload = MAX_PAYLOAD
            THEN [ps |-> PayloadOverflow(ps), ret |-> NO_MESSAGE]
            ELSE [ps |-> PayloadAppend(ps, byte), ret |-> NO_MESSAGE]

msg_type(ps) == CStr(ps.msg_type, MAX_TYPE)
msg_payload(ps) == CStr(ps.msg_payload, MAX_PAYLOAD)

----------------------------------------------------------------------------
(* Payload integer conversion and rate validation: src/parser.c,           *)
(* src/main.c                                                              *)

\* Character codes of the characters the model uses.
Ord(c) ==
    CASE c = "$" -> 36 [] c = "*" -> 42 [] c = "+" -> 43 [] c = "," -> 44
      [] c = "-" -> 45 [] c = "0" -> 48 [] c = "1" -> 49 [] c = "2" -> 50
      [] c = "3" -> 51 [] c = "4" -> 52 [] c = "5" -> 53 [] c = "6" -> 54
      [] c = "7" -> 55 [] c = "8" -> 56 [] c = "9" -> 57 [] c = ":" -> 58
      [] c = "A" -> 65 [] c = "B" -> 66 [] c = "E" -> 69 [] c = "R" -> 82
      [] c = "T" -> 84 [] c = "X" -> 88 [] c = "x" -> 120 [] c = NUL -> 0

\* int of the target (XC16, <xc.h>): 16 bits, two's complement.
INT_BITS == 16
INT_MAX == 2 ^ (INT_BITS - 1) - 1
INT_MIN == -(2 ^ (INT_BITS - 1))

InInt(v) == INT_MIN <= v /\ v <= INT_MAX

\* The value the 16-bit arithmetic unit leaves for the exact result v.
WrapInt(v) == ((v - INT_MIN) % (2 ^ INT_BITS)) + INT_MIN

\* The while loop of extract_integer from index i on: the accumulator as the
\* hardware computes it, and whether a signed operation overflowed.
RECURSIVE ExtractLoop(_, _, _, _, _)
ExtractLoop(str, last, i, number, ovf) ==
    IF i > last \/ str[i] = "," \/ str[i] = NUL
    THEN [number |-> number, ovf |-> ovf]
    ELSE LET times == number * 10
             plus == WrapInt(times) + (Ord(str[i]) - Ord("0"))
         IN  ExtractLoop(str, last, i + 1, WrapInt(plus),
                         ovf \/ ~InInt(times) \/ ~InInt(plus))

\* int extract_integer(const char* str) on the array str (last index last):
\* the value a wrapping build returns, and whether the call overflowed int.
extract_integer(str, last) ==
    LET sign == IF str[0] = "-" THEN -1 ELSE 1
        i == IF str[0] = "-" \/ str[0] = "+" THEN 1 ELSE 0
        acc == ExtractLoop(str, last, i, 0, FALSE)
    IN  [value |-> WrapInt(sign * acc.number),
         ovf |-> acc.ovf \/ ~InInt(sign * acc.number)]

\* Signed overflow is undefined: the values a call may return.  Without
\* overflow the computed value; with it the wrapped value, or either end of
\* the range.
Returned(r) == IF r.ovf THEN {r.value, INT_MAX, INT_MIN} ELSE {r.value}

VALID_RATES_N == 6
valid_rates_values == [i \in 0..5 |-> CASE i = 0 -> 0 [] i = 1 -> 1 [] i = 2 -> 2
                                        [] i = 3 -> 4 [] i = 4 -> 5 [] i = 5 -> 10]

\* int is_valid_rate(int rate), nonzero as TRUE
is_valid_rate(rate) ==
    \E i \in 0..(VALID_RATES_N - 1) : valid_rates_values[i] = rate

\* The array holding the characters of the sequence s and the terminator.
CArray(s) == [i \in 0..Len(s) |-> IF i < Len(s) THEN s[i + 1] ELSE NUL]

----------------------------------------------------------------------------
(* Sensor window and heading: src/main.c                                   *)

N_MAG_READINGS == 5
CLOCK_ACQUIRE_MAG == 4

\* struct MagReading of three long members
MagReading(x, y, z) == [x |-> x, y |-> y, z |-> z]

ZeroReading == MagReading(0, 0, 0)

\* C division of a long by a positive constant: the quotient is truncated
\* toward zero.
TruncDiv(a, b) == IF a >= 0 THEN a \div b ELSE -((-a) \div b)

\* mag_readings.readings[mag_readings.w] = sample; w = (w + 1) % N
StoreReading(mr, sample) ==
    [w |-> (mr.w + 1) % N_MAG_READINGS,
     readings |-> [mr.readings EXCEPT ![mr.w] = sample]]

\* for (i = first; i != stop; i = (i + 1) % N) sum += readings[i]
RECURSIVE SumLoop(_, _, _, _)
SumLoop(readings, i, stop, sum) ==
    IF i = stop THEN sum
    ELSE SumLoop(readings, (i + 1) % N_MAG_READINGS, stop,
                 MagReading(sum.x + readings[i].x,
                            sum.y + readings[i].y,
                            sum.z + readings[i].z))

\* The loop of main.c:203-208 on the window after the cursor has advanced:
\* it starts at w and stops as soon as i equals (w + 1) % N.
SumReadings(mr) ==
    SumLoop(mr.readings, mr.w, (mr.w + 1) % N_MAG_READINGS, ZeroReading)

AverageOf(sum) ==
    MagReading(TruncDiv(sum.x, N_MAG_READINGS),
               TruncDiv(sum.y, N_MAG_READINGS),
               TruncDiv(sum.z, N_MAG_READINGS))

\* (int)(180.0 * atan2(y, x) / M_PI) on the eight principal directions and
\* at the origin, the only arguments the sample sets of this model produce.
Atan2Deg(y, x) ==
    CASE y = 0 /\ x >= 0 -> 0
      [] y = 0 /\ x < 0 -> 180
      [] x = 0 /\ y > 0 -> 90
      [] x = 0 /\ y < 0 -> -90
      [] x > 0 /\ y = x -> 45
      [] x < 0 /\ y = x -> -135
      [] x > 0 /\ y = -x -> -45
      [] x < 0 /\ y = -x -> 135

\* ++acquire_mag_counter >= CLOCK_ACQUIRE_MAG
AcquireDue(counter) == counter + 1 >= CLOCK_ACQUIRE_MAG

\* The acquisition block of main.c:192-215 with the sample read_mag_axis
\* delivers for the three axes.
AcquireStep(sample) ==
    IF AcquireDue(acquire_mag_counter)
    THEN LET mr == StoreReading(mag_readings, sample)
             avg == AverageOf(SumReadings(mr))
         IN  /\ acquire_mag_counter' = 0
             /\ mag_readings' = mr
             /\ avg_reading' = avg
             /\ yaw_deg' = Atan2Deg(avg.y, avg.x)
             /\ acquired' = TRUE
    ELSE /\ acquire_mag_counter' = acquire_mag_counter + 1
         /\ acquired' = FALSE
         /\ UNCHANGED <<mag_readings, avg_reading, yaw_deg>>

----------------------------------------------------------------------------
(* Ring buffers, interrupt handlers and text formatting: src/main.c        *)

INPUT_BUFF_LEN == 10
OUTPUT_BUFF_LEN == 48

\* struct circular_buffer with static storage: indices and bytes are zero
EmptyBuff(len) == [read |-> 0, write |-> 0, buff |-> [i \in 0..(len - 1) |-> NUL]]

\* Number of bytes stored and not yet consumed.
Stored(cb, len) == (cb.write - cb.read + len) % len

\* The stored bytes, oldest first.
Content(cb, len) == [i \in 1..Stored(cb, len) |-> cb.buff[(cb.read + i - 1) % len]]

\* RxStore that stores without looking at the read index
RxStore_NoFullTest(cb, byte) ==
    [cb EXCEPT !.buff[cb.write] = byte, !.write = (cb.write + 1) % INPUT_BUFF_LEN]

\* RxStore that makes room by dropping the oldest byte when full
RxStore_Overwrite(cb, byte) ==
    LET new_write_index == (cb.write + 1) % INPUT_BUFF_LEN
    IN  [cb EXCEPT !.buff[cb.write] = byte,
                   !.write = new_write_index,
                   !.read = IF new_write_index = cb.read
                            THEN (cb.read + 1) % INPUT_BUFF_LEN ELSE cb.read]

\* Body of the receive loop, main.c:266-272, for the byte read from U1RXREG
RxStore(cb, byte) ==
    LET new_write_index == (cb.write + 1) % INPUT_BUFF_LEN
    IN  IF new_write_index # cb.read
        THEN [cb EXCEPT !.buff[cb.write] = byte, !.write = new_write_index]
        ELSE cb

\* _U1RXInterrupt with the bytes the receive path holds while it runs
RECURSIVE U1RXInterrupt(_, _)
U1RXInterrupt(cb, bytes) ==
    IF bytes = <<>> THEN cb
    ELSE U1RXInterrupt(RxStore(cb, Head(bytes)), Tail(bytes))

\* TxLoop without the test for an empty buffer
RECURSIVE TxLoop_NoEmptyTest(_, _, _)
TxLoop_NoEmptyTest(cb, room, sent) ==
    IF room > 0
    THEN TxLoop_NoEmptyTest([cb EXCEPT !.read = (cb.read + 1) % OUTPUT_BUFF_LEN],
                            room - 1, Append(sent, cb.buff[cb.read]))
    ELSE [cb |-> cb, sent |-> sent]

\* The transmit loop, main.c:256-259: room is the number of bytes the
\* transmit path takes before U1STAbits.UTXBF is set.
RECURSIVE TxLoop(_, _, _)
TxLoop(cb, room, sent) ==
    IF room > 0 /\ cb.read # cb.write
    THEN TxLoop([cb EXCEPT !.read = (cb.read + 1) % OUTPUT_BUFF_LEN],
                room - 1, Append(sent, cb.buff[cb.read]))
    ELSE [cb |-> cb, sent |-> sent]

\* U1TXInterrupt that rewinds both indices once the buffer is drained
U1TXInterrupt_Rewind(cb, room, trig) ==
    LET t == TxLoop(cb, room, <<>>)
    IN  [cb |-> IF t.cb.read = t.cb.write
                THEN [t.cb EXCEPT !.read = 0, !.write = 0] ELSE t.cb,
         sent |-> t.sent,
         trig |-> IF cb.read = cb.write THEN 1 ELSE trig]

\* _U1TXInterrupt: the buffer after it, the bytes written to U1TXREG and
\* the manual-trigger flag
U1TXInterrupt(cb, room, trig) ==
    LET t == TxLoop(cb, room, <<>>)
    IN  [cb |-> t.cb,
         sent |-> t.sent,
         trig |-> IF cb.read = cb.write THEN 1 ELSE trig]

\* One push of print_to_buff: the byte is dropped when the buffer is full.
TryPush(cb, byte, len) ==
    LET new_write_index == (cb.write + 1) % len
    IN  IF new_write_index # cb.read
        THEN [cb EXCEPT !.buff[cb.write] = byte, !.write = new_write_index]
        ELSE cb

\* print_to_buff(str, &cb): the characters of str pushed one by one, a
\* character whose push fails being skipped
RECURSIVE print_to_buff(_, _, _)
print_to_buff(str, cb, len) ==
    IF str = <<>> THEN cb
    ELSE LET pushed == TryPush(cb, Head(str), len)
         IN  IF pushed.write = cb.write
             THEN print_to_buff(Tail(str), cb, len)
             ELSE print_to_buff(Tail(str), pushed, len)

DigitChar(d) ==
    CASE d = 0 -> "0" [] d = 1 -> "1" [] d = 2 -> "2" [] d = 3 -> "3"
      [] d = 4 -> "4" [] d = 5 -> "5" [] d = 6 -> "6" [] d = 7 -> "7"
      [] d = 8 -> "8" [] d = 9 -> "9"

RECURSIVE DecDigits(_)
DecDigits(n) ==
    IF n < 10 THEN <<DigitChar(n)>>
    ELSE Append(DecDigits(n \div 10), DigitChar(n % 10))

\* sprintf's %d
Dec(n) == IF n < 0 THEN <<"-">> \o DecDigits(-n) ELSE DecDigits(n)

\* sprintf(output_str, "$MAG,%d,%d,%d*", ...), main.c:219
MagText(avg) ==
    <<"$", "M", "A", "G", ",">> \o Dec(avg.x) \o <<",">> \o Dec(avg.y)
        \o <<",">> \o Dec(avg.z) \o <<"*">>

\* sprintf(output_str, "$YAW,%d*", yaw_deg), main.c:225
YawText(deg) == <<"$", "Y", "A", "W", ",">> \o Dec(deg) \o <<"*">>

\* "$ERR,1*", main.c:237
ErrText == <<"$", "E", "R", "R", ",", "1", "*">>

\* RateType one character short
RateType_Short == <<"R", "A", "T">>

\* "RATE", main.c:232
RateType == <<"R", "A", "T", "E">>

----------------------------------------------------------------------------
(* The main loop: src/main.c:185-244                                       *)

CLOCK_LD_TOGGLE == 50
CLOCK_YAW_PRINT == 20
main_hz == 100

\* ++LD2_toggle_counter >= CLOCK_LD_TOGGLE
ToggleDue(counter) == counter + 1 >= CLOCK_LD_TOGGLE

\* MagDue without the test of the rate, a rate of 0 giving a period of 0
MagDue_NoRateTest(rate, counter) ==
    counter + 1 >= (IF rate = 0 THEN 0 ELSE main_hz \div rate)

\* MagDue with the comparison of the counter made strict
MagDue_Late(rate, counter) ==
    rate # 0 /\ counter + 1 > main_hz \div rate

\* print_mag_rate && ++print_mag_counter >= (main_hz / print_mag_rate)
MagDue(rate, counter) ==
    rate # 0 /\ counter + 1 >= main_hz \div rate

\* print_mag_counter after the test of main.c:217 and the reset of main.c:218:
\* the increment is skipped when the rate is 0.
MagCounterAfter(rate, counter) ==
    IF rate = 0 THEN counter
    ELSE IF MagDue(rate, counter) THEN 0 ELSE counter + 1

\* YawDue with the comparison made strict
YawDue_Late(counter) == counter + 1 > CLOCK_YAW_PRINT

\* ++print_yaw_counter >= CLOCK_YAW_PRINT
YawDue(counter) == counter + 1 >= CLOCK_YAW_PRINT

\* CommandRate that takes every parsed value
CommandRate_NoTest(rate, current) == rate

\* The telemetry rate after a RATE frame whose payload parsed to rate,
\* main.c:234-235
CommandRate(rate, current) == IF is_valid_rate(rate) THEN rate ELSE current

\* The output buffer after a RATE frame whose payload parsed to rate,
\* main.c:236-238
CommandOutput(rate, cb) ==
    IF is_valid_rate(rate) THEN cb
    ELSE print_to_buff(ErrText, cb, OUTPUT_BUFF_LEN)

\* UART_input_buff.read = (UART_input_buff.read + 1) % INPUT_BUFF_LEN
Consume(cb) == [cb EXCEPT !.read = (cb.read + 1) % INPUT_BUFF_LEN]

----------------------------------------------------------------------------
(* Initial values                                                          *)

\* The sender before its first byte.
InitSender ==
    /\ gphase = "idle"
    /\ gT = <<>>
    /\ gP = <<>>
    /\ gcomma = FALSE
    /\ gprev = "none"
    /\ nframes = 0

\* No text has been handed to extract_integer.
InitIntIdle ==
    /\ xstr = <<>>
    /\ xret = 0
    /\ xcalled = FALSE

\* main.c:168
InitParserVars ==
    /\ pstate = InitParser
    /\ ret = NO_MESSAGE
    /\ fed = NUL

\* main.c:146, 160, 165-166 and the fill loop of main.c:173-180, which
\* stores one sample in each slot and leaves the cursor at 0.
InitSensor(samples) ==
    /\ mag_readings \in [w : {0}, readings : [0..(N_MAG_READINGS - 1) -> samples]]
    /\ avg_reading = ZeroReading
    /\ yaw_deg = 0
    /\ acquired = FALSE
    /\ acquire_mag_counter = 0

\* main.c:144, 159-162
InitSched ==
    /\ LD2_toggle_counter = 0
    /\ print_mag_counter = 0
    /\ print_yaw_counter = 0
    /\ print_mag_rate = 5
    /\ LATG9 = 0

\* main.c:47-58
InitRings ==
    /\ UART_input_buff = EmptyBuff(INPUT_BUFF_LEN)
    /\ UART_output_buff = EmptyBuff(OUTPUT_BUFF_LEN)
    /\ UART_INTERRUPT_TX_MANUAL_TRIG = 0

\* The main loop at position at, with one of the streams still to arrive.
InitLoop(at, streams) ==
    /\ pc = at
    /\ now = 0
    /\ wire \in streams

NoRx == [on |-> FALSE]
NoTx == [on |-> FALSE]
NoDrain == [on |-> FALSE]
NoGap == [on |-> FALSE]

InitTrace ==
    /\ ctx = "main"
    /\ rxlog = NoRx
    /\ txlog = NoTx
    /\ dstep = NoDrain
    /\ emitted = <<>>
    /\ gap = 0
    /\ steady = FALSE
    /\ lastGap = NoGap
    /\ waited = 0
    /\ stored = <<>>
    /\ handed = <<>>

----------------------------------------------------------------------------
(* A sender feeding frames to parse_byte one byte at a time               *)

\* Characters a type token may hold at position n (no ',' and no '*').  A
\* '$' is sent inside a token only where the parser is still reading it.
TypeChars(n) == IF n < FreeType THEN {"A", "B", "$"} ELSE {"A"}

\* Characters a payload may hold at position n (no '*').
PayloadChars(n) == IF n < FreePayload THEN {"x", ",", "$"} ELSE {"x"}

\* Bytes sent between frames.
Garbage == {"A", ",", "*"}

\* How the frame that has just been sent ended.
Outcome ==
    IF gphase # "end" THEN gprev
    ELSE IF Len(gT) > MAX_TYPE THEN "typeabort"
    ELSE IF Len(gP) > MAX_PAYLOAD THEN "payloadabort"
    ELSE "complete"

Feed(byte) ==
    /\ pstate' = parse_byte(pstate, byte).ps
    /\ ret' = parse_byte(pstate, byte).ret
    /\ fed' = byte
    /\ UNCHANGED notParserRun

FeedStart ==
    /\ gphase \in {"idle", "end"}
    /\ nframes < MaxFrames
    /\ Feed("$")
    /\ gphase' = "type"
    /\ gT' = <<>>
    /\ gP' = <<>>
    /\ gcomma' = FALSE
    /\ gprev' = Outcome
    /\ nframes' = nframes + 1

FeedGarbage ==
    /\ gphase \in {"idle", "end"}
    /\ \E byte \in Garbage : Feed(byte)
    /\ gphase' = "idle"
    /\ gprev' = Outcome
    /\ UNCHANGED <<gT, gP, gcomma, nframes>>

FeedType ==
    /\ gphase = "type"
    /\ Len(gT) < MAX_TYPE + OverRun
    /\ \E byte \in TypeChars(Len(gT)) :
            /\ Feed(byte)
            /\ gT' = Append(gT, byte)
    /\ UNCHANGED <<gphase, gP, gcomma, gprev, nframes>>

FeedComma ==
    /\ gphase = "type"
    /\ Feed(",")
    /\ gphase' = "payload"
    /\ gcomma' = TRUE
    /\ UNCHANGED <<gT, gP, gprev, nframes>>

\* Only the last frame of a run carries a long payload; a frame whose type
\* token was too long carries a short one without '$'.
PayloadRoom ==
    IF Len(gT) > MAX_TYPE THEN ShortLen
    ELSE IF nframes < MaxFrames THEN ShortLen
    ELSE MAX_PAYLOAD + OverRun

FeedPayload ==
    /\ gphase = "payload"
    /\ Len(gP) < PayloadRoom
    /\ \E byte \in PayloadChars(Len(gP)) :
            /\ Len(gT) > MAX_TYPE => byte # "$"
            /\ Feed(byte)
            /\ gP' = Append(gP, byte)
    /\ UNCHANGED <<gphase, gT, gcomma, gprev, nframes>>

FeedStar ==
    /\ gphase \in {"type", "payload"}
    /\ Feed("*")
    /\ gphase' = "end"
    /\ UNCHANGED <<gT, gP, gcomma, gprev, nframes>>

InitParserRun ==
    /\ InitParserVars
    /\ InitSender
    /\ InitIntIdle
    /\ InitSensor({ZeroReading})
    /\ InitSched
    /\ InitRings
    /\ InitLoop("tasks", {<<>>})
    /\ InitTrace

NextParser ==
    \/ FeedStart
    \/ FeedGarbage
    \/ FeedType
    \/ FeedComma
    \/ FeedPayload
    \/ FeedStar

SpecParser == InitParserRun /\ [][NextParser]_vars

----------------------------------------------------------------------------
(* extract_integer applied to signed decimal texts                         *)

Digits == {"0", "1", "2", "3", "6", "7", "8"}
Signs == {<<>>, <<"+">>, <<"-">>}
Tails == {<<>>, <<",", "7">>}

RECURSIVE DigitTexts(_)
DigitTexts(n) ==
    IF n = 0 THEN {<<>>}
    ELSE LET shorter == DigitTexts(n - 1)
         IN  shorter \cup {Append(t, d) : t \in {u \in shorter : Len(u) = n - 1}, d \in Digits}

\* sign, digits, tail of a text
IntTexts(n) == {<<s, t, e>> : s \in Signs, t \in DigitTexts(n) \ {<<>>}, e \in Tails}

\* The integer a digit sequence denotes.
RECURSIVE Denoted(_)
Denoted(t) ==
    IF t = <<>> THEN 0
    ELSE 10 * Denoted(SubSeq(t, 1, Len(t) - 1)) + (Ord(t[Len(t)]) - 48)

SignedDenoted(x) == IF x[1] = <<"-">> THEN -Denoted(x[2]) ELSE Denoted(x[2])

InitInt ==
    /\ xstr \in IntTexts(MaxDigits)
    /\ xret = 0
    /\ xcalled = FALSE
    /\ InitParserVars
    /\ InitSender
    /\ InitSensor({ZeroReading})
    /\ InitSched
    /\ InitRings
    /\ InitLoop("tasks", {<<>>})
    /\ InitTrace

CallExtract ==
    /\ ~xcalled
    /\ LET text == xstr[1] \o xstr[2] \o xstr[3]
       IN  xret' \in Returned(extract_integer(CArray(text), Len(text)))
    /\ xcalled' = TRUE
    /\ UNCHANGED <<xstr, parserVars, senderVars, sensorVars, schedVars, ringVars,
                   loopVars, traceVars, auxVars>>

NextInt == CallExtract

SpecInt == InitInt /\ [][NextInt]_vars

\* C9 (as claimed): for every text made of an optional sign and decimal
\* digits, ended by ',' or the end of the string, extract_integer returns
\* the signed integer the text denotes.
C9_ExtractReturnsDenoted ==
    xcalled => xret = SignedDenoted(xstr)

----------------------------------------------------------------------------
(* The acquisition block applied to windows of known readings              *)

\* Readings of the three axes (x and y in -4096..4095, z in -16384..16383)
\* with x = y, so that every average lies on a principal direction.
AvgSamples ==
    {MagReading(4095, 4095, 16383), MagReading(-4096, -4096, -16384),
     MagReading(-7, -7, 8), MagReading(3, 3, -3)}

InitAvg ==
    /\ InitSensor(AvgSamples)
    /\ InitParserVars
    /\ InitSender
    /\ InitIntIdle
    /\ InitSched
    /\ InitRings
    /\ InitLoop("tasks", {<<>>})
    /\ InitTrace

AcquireTick ==
    /\ \E sample \in AvgSamples : AcquireStep(sample)
    /\ UNCHANGED <<parserVars, senderVars, intVars, schedVars, ringVars, loopVars,
                   traceVars, auxVars>>

NextAvg == AcquireTick

SpecAvg == InitAvg /\ [][NextAvg]_vars

\* Sum of one axis over all the slots of the window.
AxisSum(readings, axis) ==
    readings[0][axis] + readings[1][axis] + readings[2][axis]
        + readings[3][axis] + readings[4][axis]

\* C5 (as claimed): after every scheduled acquisition each axis of the
\* current average equals the sum of that axis over all 5 slots of the
\* window divided by 5, truncated toward zero.
C5_AverageOverWindow ==
    acquired =>
        \A axis \in {"x", "y", "z"} :
            avg_reading[axis] = TruncDiv(AxisSum(mag_readings.readings, axis), 5)

----------------------------------------------------------------------------
(* The main loop and the two interrupt handlers                            *)

\* What read_mag_axis delivers for the three axes in the runs of the loop.
LoopSamples == {MagReading(15, 15, -20)}

RateFrame(payload) == <<"$", "R", "A", "T", "E", ",">> \o payload \o <<"*">>

\* The inbound streams of the runs of the loop: one frame, or two frames
\* back to back.
InStreams ==
    {RateFrame(<<"1">>), RateFrame(<<"2">>), RateFrame(<<"4">>),
     RateFrame(<<"5">>), RateFrame(<<"1", "0">>), RateFrame(<<"0">>),
     RateFrame(<<"3">>), RateFrame(<<"7">>), RateFrame(<<"1", "1">>),
     RateFrame(<<"-", "1">>), RateFrame(<<"6", "5", "5", "3", "6">>),
     RateFrame(<<>>), RateFrame(<<":">>), <<"$", "R", "A", "T", "E", "*">>,
     <<"$", "R", "A", "T", ",", "2", "*">>, <<"$", "X", "*">>,
     RateFrame(<<"0">>) \o RateFrame(<<"1", "0">>),
     RateFrame(<<"1">>) \o RateFrame(<<"4">>)}

\* Lines 186-227: the status indicator, the acquisition, the MAG and the YAW
\* emission of one tick.  The link is active: the transmit handler has
\* emptied the output buffer by the time the wait for the period ends.
MainTasks ==
    /\ pc = "tasks"
    /\ now < MaxTicks
    /\ UART_output_buff.read = UART_output_buff.write
    /\ \E sample \in LoopSamples : AcquireStep(sample)
    /\ LD2_toggle_counter' =
            IF ToggleDue(LD2_toggle_counter) THEN 0 ELSE LD2_toggle_counter + 1
    /\ LATG9' = IF ToggleDue(LD2_toggle_counter) THEN 1 - LATG9 ELSE LATG9
    /\ LET magDue == MagDue(print_mag_rate, print_mag_counter)
           yawDue == YawDue(print_yaw_counter)
           mag == MagText(avg_reading')
           yaw == YawText(yaw_deg')
           out1 == IF magDue
                   THEN print_to_buff(mag, UART_output_buff, OUTPUT_BUFF_LEN)
                   ELSE UART_output_buff
           out2 == IF yawDue
                   THEN print_to_buff(yaw, out1, OUTPUT_BUFF_LEN)
                   ELSE out1
       IN  /\ print_mag_counter' = MagCounterAfter(print_mag_rate, print_mag_counter)
           /\ print_yaw_counter' = IF yawDue THEN 0 ELSE print_yaw_counter + 1
           /\ UART_output_buff' = out2
           /\ emitted' = (IF magDue THEN <<mag>> ELSE <<>>)
                            \o (IF yawDue THEN <<yaw>> ELSE <<>>)
           /\ gap' = IF magDue THEN 0 ELSE gap + 1
           /\ steady' = (magDue \/ steady)
           /\ waited' = IF magDue \/ print_mag_rate = 0 THEN 0 ELSE waited + 1
           /\ lastGap' = IF magDue /\ steady
                         THEN [on |-> TRUE, ticks |-> gap + 1, rate |-> print_mag_rate]
                         ELSE NoGap
    /\ pc' = "drain"
    /\ ctx' = "main"
    /\ rxlog' = NoRx
    /\ txlog' = NoTx
    /\ dstep' = NoDrain
    /\ UNCHANGED <<print_mag_rate, UART_input_buff, UART_INTERRUPT_TX_MANUAL_TRIG,
                   now, wire, stored, handed, parserVars, senderVars, intVars>>

\* One iteration of the loop of lines 229-242.
DrainByte ==
    /\ pc = "drain"
    /\ UART_input_buff.read # UART_input_buff.write
    /\ LET byte == UART_input_buff.buff[UART_input_buff.read]
           p == parse_byte(pstate, byte)
           isRate == p.ret = NEW_MESSAGE /\ msg_type(p.ps) = RateType
       IN  /\ pstate' = p.ps
           /\ ret' = p.ret
           /\ fed' = byte
           /\ IF isRate
              THEN \E rate \in Returned(extract_integer(p.ps.msg_payload, MAX_PAYLOAD)) :
                      /\ print_mag_rate' = CommandRate(rate, print_mag_rate)
                      /\ UART_output_buff' = CommandOutput(rate, UART_output_buff)
                      /\ dstep' = [on |-> TRUE, status |-> p.ret, isRate |-> TRUE,
                                   rate |-> rate, rateBefore |-> print_mag_rate,
                                   outBefore |-> UART_output_buff]
              ELSE /\ UNCHANGED <<print_mag_rate, UART_output_buff>>
                   /\ dstep' = [on |-> TRUE, status |-> p.ret, isRate |-> FALSE,
                                rateBefore |-> print_mag_rate,
                                outBefore |-> UART_output_buff]
    /\ UART_input_buff' = Consume(UART_input_buff)
    /\ steady' = (steady /\ print_mag_rate' = print_mag_rate)
    /\ waited' = IF print_mag_rate' = print_mag_rate THEN waited ELSE 0
    /\ ctx' = "main"
    /\ rxlog' = NoRx
    /\ txlog' = NoTx
    /\ emitted' = <<>>
    /\ UNCHANGED <<LD2_toggle_counter, print_mag_counter, print_yaw_counter, LATG9,
                   UART_INTERRUPT_TX_MANUAL_TRIG, gap, lastGap, stored, handed,
                   loopVars, sensorVars, senderVars, intVars>>

\* The loop of lines 229-242 finds the buffer empty; tmr_wait_period ends
\* the tick.
DrainEnd ==
    /\ pc = "drain"
    /\ UART_input_buff.read = UART_input_buff.write
    /\ pc' = "tasks"
    /\ now' = now + 1
    /\ ctx' = "main"
    /\ rxlog' = NoRx
    /\ txlog' = NoTx
    /\ dstep' = NoDrain
    /\ emitted' = <<>>
    /\ UNCHANGED <<wire, gap, steady, lastGap, auxVars, ringVars, schedVars,
                   sensorVars, parserVars, senderVars, intVars>>

\* _U1RXInterrupt finds the given bytes in the receive path.
Receive(bytes) ==
    /\ UART_input_buff' = U1RXInterrupt(UART_input_buff, bytes)
    /\ ctx' = "rx"
    /\ rxlog' = [on |-> TRUE, before |-> UART_input_buff, bytes |-> bytes]
    /\ txlog' = NoTx
    /\ dstep' = NoDrain
    /\ emitted' = <<>>
    /\ UNCHANGED <<UART_output_buff, UART_INTERRUPT_TX_MANUAL_TRIG, pc, now, gap,
                   steady, lastGap, auxVars, schedVars, sensorVars, parserVars,
                   senderVars, intVars>>

\* The receive handler runs on the next bytes of the inbound stream.  The
\* line delivers at most 9.6 bytes per tick (main.c:11-13), so the sender
\* of these runs does not overrun the input buffer.
RxArrive ==
    /\ now < ArriveBy
    /\ \E k \in 1..RxBurst :
            /\ k <= Len(wire)
            /\ Stored(UART_input_buff, INPUT_BUFF_LEN) + k <= INPUT_BUFF_LEN - 1
            /\ Receive(SubSeq(wire, 1, k))
            /\ wire' = SubSeq(wire, k + 1, Len(wire))

\* _U1TXInterrupt on a buffer that holds bytes; the transmit path takes
\* every byte offered.
TxFire ==
    /\ UART_output_buff.read # UART_output_buff.write
    /\ LET t == U1TXInterrupt(UART_output_buff, OUTPUT_BUFF_LEN,
                              UART_INTERRUPT_TX_MANUAL_TRIG)
       IN  /\ UART_output_buff' = t.cb
           /\ UART_INTERRUPT_TX_MANUAL_TRIG' = t.trig
           /\ txlog' = [on |-> TRUE, before |-> UART_output_buff, sent |-> t.sent]
    /\ ctx' = "tx"
    /\ rxlog' = NoRx
    /\ dstep' = NoDrain
    /\ emitted' = <<>>
    /\ UNCHANGED <<UART_input_buff, gap, steady, lastGap, auxVars, loopVars,
                   schedVars, sensorVars, parserVars, senderVars, intVars>>

Init ==
    /\ InitParserVars
    /\ InitSender
    /\ InitIntIdle
    /\ InitSensor(LoopSamples)
    /\ InitSched
    /\ InitRings
    /\ InitLoop("tasks", InStreams)
    /\ InitTrace

Next ==
    \/ MainTasks
    \/ DrainByte
    \/ DrainEnd
    \/ RxArrive
    \/ TxFire

Spec == Init /\ [][Next]_vars

----------------------------------------------------------------------------
(* The input ring under an arbitrary sender                                *)

\* The sender's stream repeats this pattern, so that a byte stored out of
\* place or twice differs from the byte expected there.
RingPattern == <<"a", "b", "c">>

\* The first n bytes of the stream.
RingStream(n) == [i \in 1..n |-> RingPattern[((i - 1) % Len(RingPattern)) + 1]]

\* _U1RXInterrupt finds the next one to RxBurst bytes of the stream in the
\* receive path, at any moment and however many bytes the buffer holds.
RxAny ==
    \E k \in 1..RxBurst :
        /\ k <= Len(wire)
        /\ Receive(SubSeq(wire, 1, k))
        /\ wire' = SubSeq(wire, k + 1, Len(wire))

InitRing ==
    /\ InitParserVars
    /\ InitSender
    /\ InitIntIdle
    /\ InitSensor(LoopSamples)
    /\ InitSched
    /\ InitRings
    /\ InitLoop("drain", {RingStream(RingLen)})
    /\ InitTrace

NextRing ==
    \/ RxAny
    \/ DrainByte

SpecRing == InitRing /\ [][NextRing]_vars

----------------------------------------------------------------------------
(* The telemetry formatter and the output ring over the sensor's range     *)

\* char output_str[20], main.c:157
OUTPUT_STR_LEN == 20

\* Averaged readings within the range of the sensor (main.c:15-19): the ends
\* of the range, a fifth of the ends, and zero.
FmtReadings ==
    {MagReading(x, y, z) : x \in {-4096, -819, 0, 4095},
                           y \in {-4096, -819, 0, 4095},
                           z \in {-16384, -3276, 0, 16383}}

\* Headings within -180..180 (main.c:21-22).
FmtYaws == {-180, -135, 0, 45, 180}

InitFmt ==
    /\ InitParserVars
    /\ InitSender
    /\ InitIntIdle
    /\ mag_readings = [w |-> 0, readings |-> [i \in 0..(N_MAG_READINGS - 1) |-> ZeroReading]]
    /\ avg_reading \in FmtReadings
    /\ yaw_deg \in FmtYaws
    /\ acquired = FALSE
    /\ acquire_mag_counter = 0
    /\ InitSched
    /\ InitRings
    /\ InitLoop("tasks", {<<>>})
    /\ InitTrace

\* main.c:219-220 and 225-226 on a tick on which both frames are due: the
\* two texts are rendered and handed to print_to_buff.
FmtRender ==
    /\ pc = "tasks"
    /\ LET mag == MagText(avg_reading)
           yaw == YawText(yaw_deg)
       IN  /\ emitted' = <<mag, yaw>>
           /\ UART_output_buff' =
                print_to_buff(yaw, print_to_buff(mag, UART_output_buff,
                                                 OUTPUT_BUFF_LEN),
                              OUTPUT_BUFF_LEN)
    /\ pc' = "drain"
    /\ ctx' = "main"
    /\ UNCHANGED <<rxlog, txlog, dstep, gap, steady, lastGap, auxVars, now, wire,
                   UART_input_buff, UART_INTERRUPT_TX_MANUAL_TRIG, schedVars,
                   sensorVars, parserVars, senderVars, intVars>>

\* main.c:234-238 for a RATE frame whose value (3) is not an allowed rate,
\* the limit-th such frame at most.
ErrStep(limit) ==
    /\ pc = "drain"
    /\ nframes < limit
    /\ nframes' = nframes + 1
    /\ UART_output_buff' = CommandOutput(3, UART_output_buff)
    /\ print_mag_rate' = CommandRate(3, print_mag_rate)
    /\ dstep' = [on |-> TRUE, status |-> NEW_MESSAGE, isRate |-> TRUE, rate |-> 3,
                 rateBefore |-> print_mag_rate, outBefore |-> UART_output_buff]
    /\ ctx' = "main"
    /\ UNCHANGED <<emitted, gap, steady, lastGap, auxVars, loopVars,
                   UART_input_buff, UART_INTERRUPT_TX_MANUAL_TRIG,
                   LD2_toggle_counter, print_mag_counter, print_yaw_counter, LATG9,
                   sensorVars, parserVars, gphase, gT, gP, gcomma, gprev, intVars>>

\* The input buffer lets at most two frames complete in one tick
\* (main.c:24-26).
FmtErr ==
    /\ ErrStep(2)
    /\ UNCHANGED <<rxlog, txlog>>

NextFmt ==
    \/ FmtRender
    \/ FmtErr

SpecFmt == InitFmt /\ [][NextFmt]_vars

----------------------------------------------------------------------------
(* The transmit handler against the main loop's error replies              *)

\* _U1TXInterrupt at any moment, the transmit path taking room bytes before
\* U1STAbits.UTXBF is set.
TxAny ==
    \E room \in 0..TxRoom :
        LET t == U1TXInterrupt(UART_output_buff, room, UART_INTERRUPT_TX_MANUAL_TRIG)
        IN  /\ UART_output_buff' = t.cb
            /\ UART_INTERRUPT_TX_MANUAL_TRIG' = t.trig
            /\ txlog' = [on |-> TRUE, before |-> UART_output_buff, sent |-> t.sent,
                         room |-> room]
            /\ ctx' = "tx"
            /\ rxlog' = NoRx
            /\ dstep' = NoDrain
            /\ UNCHANGED <<UART_input_buff, emitted, gap, steady, lastGap, auxVars,
                           loopVars, schedVars, sensorVars, parserVars, senderVars,
                           intVars>>

TxErr ==
    /\ ErrStep(TxFrames)
    /\ txlog' = NoTx
    /\ rxlog' = NoRx

InitTx ==
    /\ InitParserVars
    /\ InitSender
    /\ InitIntIdle
    /\ InitSensor(LoopSamples)
    /\ InitSched
    /\ InitRings
    /\ InitLoop("drain", {<<>>})
    /\ InitTrace

NextTx ==
    \/ TxAny
    \/ TxErr

SpecTx == InitTx /\ [][NextTx]_vars

----------------------------------------------------------------------------
(* The drain loop step by step against the receive handler                 *)

\* _U1RXInterrupt between any two steps of the main loop, with the next one
\* to RxBurst bytes of the stream in the receive path.  The handler runs to
\* its end before the main loop continues; stored grows by the bytes for
\* which it advanced the write index.
FineRx ==
    \E k \in 1..RxBurst :
        /\ k <= Len(wire)
        /\ LET bytes == SubSeq(wire, 1, k)
               after == U1RXInterrupt(UART_input_buff, bytes)
               written == (after.write - UART_input_buff.write + INPUT_BUFF_LEN)
                              % INPUT_BUFF_LEN
           IN  /\ UART_input_buff' = after
               /\ stored' = stored \o SubSeq(bytes, 1, written)
               /\ rxlog' = [on |-> TRUE, before |-> UART_input_buff, bytes |-> bytes]
        /\ wire' = SubSeq(wire, k + 1, Len(wire))
        /\ ctx' = "rx"
        /\ txlog' = NoTx
        /\ dstep' = NoDrain
        /\ UNCHANGED <<pc, now, UART_output_buff, UART_INTERRUPT_TX_MANUAL_TRIG,
                       emitted, gap, steady, lastGap, waited, handed, schedVars,
                       sensorVars, parserVars, senderVars, intVars>>

\* What a step of the main loop leaves alone besides its own effect.
FineMain ==
    /\ ctx' = "main"
    /\ rxlog' = NoRx
    /\ txlog' = NoTx
    /\ emitted' = <<>>
    /\ UNCHANGED <<now, wire, stored, gap, lastGap, LD2_toggle_counter,
                   print_mag_counter, print_yaw_counter, LATG9,
                   UART_INTERRUPT_TX_MANUAL_TRIG, sensorVars, senderVars, intVars>>

\* main.c:229, the test of the loop finds a byte.  When it finds none the
\* loop ends and the test is made again in the next tick, the input buffer
\* being left alone in between.
FineTest ==
    /\ pc = "test"
    /\ UART_input_buff.read # UART_input_buff.write
    /\ pc' = "slot"
    /\ dstep' = NoDrain
    /\ FineMain
    /\ UNCHANGED <<UART_input_buff, UART_output_buff, print_mag_rate, steady, waited,
                   handed, parserVars>>

\* main.c:230, the argument UART_input_buff.buff[UART_input_buff.read] is
\* loaded.
FineSlot ==
    /\ pc = "slot"
    /\ fed' = UART_input_buff.buff[UART_input_buff.read]
    /\ pc' = "parse"
    /\ dstep' = NoDrain
    /\ FineMain
    /\ UNCHANGED <<UART_input_buff, UART_output_buff, print_mag_rate, steady, waited,
                   handed, pstate, ret>>

\* main.c:230-240, parse_byte is called with the loaded byte and a completed
\* frame is handled.
FineParse ==
    /\ pc = "parse"
    /\ LET p == parse_byte(pstate, fed)
           isRate == p.ret = NEW_MESSAGE /\ msg_type(p.ps) = RateType
       IN  /\ pstate' = p.ps
           /\ ret' = p.ret
           /\ IF isRate
              THEN \E rate \in Returned(extract_integer(p.ps.msg_payload, MAX_PAYLOAD)) :
                      /\ print_mag_rate' = CommandRate(rate, print_mag_rate)
                      /\ UART_output_buff' = CommandOutput(rate, UART_output_buff)
                      /\ dstep' = [on |-> TRUE, status |-> p.ret, isRate |-> TRUE,
                                   rate |-> rate, rateBefore |-> print_mag_rate,
                                   outBefore |-> UART_output_buff]
              ELSE /\ UNCHANGED <<print_mag_rate, UART_output_buff>>
                   /\ dstep' = [on |-> TRUE, status |-> p.ret, isRate |-> FALSE,
                                rateBefore |-> print_mag_rate,
                                outBefore |-> UART_output_buff]
    /\ handed' = Append(handed, fed)
    /\ steady' = (steady /\ print_mag_rate' = print_mag_rate)
    /\ waited' = IF print_mag_rate' = print_mag_rate THEN waited ELSE 0
    /\ pc' = "advance"
    /\ FineMain
    /\ UNCHANGED <<UART_input_buff, fed>>

\* main.c:241
FineAdvance ==
    /\ pc = "advance"
    /\ UART_input_buff' = Consume(UART_input_buff)
    /\ pc' = "test"
    /\ dstep' = NoDrain
    /\ FineMain
    /\ UNCHANGED <<UART_output_buff, print_mag_rate, steady, waited, handed,
                   parserVars>>

\* The stream carries a command and then the pattern.
FineStream == RateFrame(<<"3">>) \o RingStream(FineLen)

InitFine ==
    /\ InitParserVars
    /\ InitSender
    /\ InitIntIdle
    /\ InitSensor(LoopSamples)
    /\ InitSched
    /\ InitRings
    /\ InitLoop("test", {FineStream})
    /\ InitTrace

NextFine ==
    \/ FineRx
    \/ FineTest
    \/ FineSlot
    \/ FineParse
    \/ FineAdvance

SpecFine == InitFine /\ [][NextFine]_vars

----------------------------------------------------------------------------
(* Claims about the parser, checked under SpecParser                       *)

\* The frame the sender has just finished is a well-formed `$T,P*`.
WellFormedSent ==
    /\ gphase = "end"
    /\ gcomma
    /\ Len(gT) <= MAX_TYPE
    /\ Len(gP) <= MAX_PAYLOAD

Delivered ==
    /\ ret = NEW_MESSAGE
    /\ msg_type(pstate) = gT
    /\ msg_payload(pstate) = gP

\* C1: for every well-formed frame `$T,P*` (|T| <= 6, |P| <= 100) fed one
\* byte at a time from AwaitStart, parse_byte returns NEW_MESSAGE on the
\* final '*' with the stored type equal to T and the stored payload equal to
\* P, and returns NO_MESSAGE for every earlier byte of the frame.
C1_WellFormedFrameDelivered ==
    /\ WellFormedSent => Delivered
    /\ gphase \in {"type", "payload"} => ret = NO_MESSAGE
    /\ gphase \in {"idle", "end"} => pstate.state = STATE_DOLLAR

\* C1 witness: a frame of the longest type and payload delivered after an
\* earlier complete frame.
C1_Witness ==
    /\ WellFormedSent
    /\ Len(gT) = MAX_TYPE
    /\ Len(gP) = MAX_PAYLOAD
    /\ gprev = "complete"
    /\ Delivered

\* C2 (as claimed): for every type token T of at most 6 characters the
\* comma-less frame `$T*` returns NEW_MESSAGE on the '*' with type T and an
\* empty payload.
C2_CommaLessFrameDelivered ==
    (gphase = "end" /\ ~gcomma /\ Len(gT) <= MAX_TYPE)
        => (ret = NEW_MESSAGE /\ msg_type(pstate) = gT /\ msg_payload(pstate) = <<>>)

\* C3: once more than 6 characters have been sent for the type token the
\* frame is dropped silently (no call returns NEW_MESSAGE for any of its
\* bytes and the parser is in AwaitStart from the offending byte on), and a
\* well-formed frame `$T,P*` sent after it is delivered with exactly its
\* own type and payload.
C3_OversizedTypeAbortsCleanly ==
    /\ (Len(gT) > MAX_TYPE /\ gphase # "idle")
            => (ret = NO_MESSAGE /\ pstate.state = STATE_DOLLAR)
    /\ (gprev = "typeabort" /\ WellFormedSent) => Delivered

\* C3 witness: a frame delivered right after a frame dropped for its type.
C3_Witness ==
    /\ gprev = "typeabort"
    /\ WellFormedSent
    /\ Len(gT) > 0
    /\ Len(gP) > 0
    /\ Delivered



\* C15: once more than 100 characters have been sent for the payload of a
\* frame with a legal type, the frame is dropped (the call for the 101st
\* character returns NO_MESSAGE and leaves the parser in AwaitStart, and so
\* does the call for the '*' that follows); the payload index stays within
\* 0..100 and the type index within 0..6 in every state; a frame with a
\* payload of exactly 100 characters is delivered on its '*'.
C15_OversizedPayloadAborts ==
    /\ pstate.index_payload \in 0..100
    /\ pstate.index_type \in 0..6
    /\ (gcomma /\ Len(gP) > 100 /\ gphase \in {"payload", "end"})
            => (ret = NO_MESSAGE /\ pstate.state = STATE_DOLLAR)
    /\ (gphase = "end" /\ gcomma /\ Len(gT) <= 6 /\ Len(gP) = 100) => Delivered

\* C15 witness: the '*' after a payload of 101 characters, the type being
\* legal, has been fed and no message has been returned.
C15_Witness ==
    /\ gphase = "end"
    /\ gcomma
    /\ Len(gT) <= 6
    /\ Len(gP) = 101
    /\ ret = NO_MESSAGE
    /\ pstate.state = STATE_DOLLAR
    /\ pstate.index_payload = 0

----------------------------------------------------------------------------
(* Claims on the input ring                                                *)

\* The bytes of an activation of the receive handler that find room.
Kept(before, bytes) ==
    IF Len(bytes) <= 9 - Stored(before, 10) THEN bytes
    ELSE SubSeq(bytes, 1, 9 - Stored(before, 10))

\* C4: the input ring has capacity 10 and holds between 0 and 9 bytes in
\* every reachable state; an activation of the receive handler stores its
\* bytes, in order, while fewer than 9 are stored and discards the others;
\* a push on a full ring leaves the write index, the read index and the
\* stored bytes as they were, and the receive handler never moves the read
\* index, so that each byte the main loop consumes makes room for one push.
C4_InputRingCapacity ==
    /\ INPUT_BUFF_LEN = 10
    /\ Stored(UART_input_buff, 10) \in 0..9
    /\ rxlog.on =>
        /\ Content(UART_input_buff, 10)
               = Content(rxlog.before, 10) \o Kept(rxlog.before, rxlog.bytes)
        /\ UART_input_buff.read = rxlog.before.read
        /\ UART_input_buff.write
               = (rxlog.before.write + Len(Kept(rxlog.before, rxlog.bytes))) % 10
        /\ (Stored(rxlog.before, 10) = 9 => UART_input_buff = rxlog.before)

\* Two bytes arrive at a ring that holds 8 after the main loop has consumed
\* bytes: the first is stored and fills the ring, the second is discarded.
C4_Witness ==
    /\ rxlog.on
    /\ Len(rxlog.bytes) = 2
    /\ Stored(rxlog.before, 10) = 8
    /\ rxlog.before.read # 0
    /\ Stored(UART_input_buff, 10) = 9

----------------------------------------------------------------------------
(* Claims on the main loop                                                 *)

AllowedRates == {0, 1, 2, 4, 5, 10}

\* The payload of the frame the main loop has just handled.
HandledPayload == msg_payload(pstate)

\* The decimal text of the rates that enable telemetry.
EnablingText ==
    [r \in {1, 2, 4, 5, 10} |->
        CASE r = 1 -> <<"1">> [] r = 2 -> <<"2">> [] r = 4 -> <<"4">>
          [] r = 5 -> <<"5">> [] r = 10 -> <<"1", "0">>]

\* C6: once the main loop has consumed the '*' of `$RATE,r*` with r in
\* {1,2,4,5,10} the telemetry rate is r, and two consecutive MAG emissions
\* with no change of the rate between them, the first made at rate r, are
\* exactly 100/r ticks apart.
C6_RateFrameSetsPeriod ==
    /\ \A r \in DOMAIN EnablingText :
          (dstep.on /\ dstep.isRate /\ HandledPayload = EnablingText[r])
              => print_mag_rate = r
    /\ lastGap.on =>
          /\ lastGap.rate \in DOMAIN EnablingText
          /\ lastGap.ticks * lastGap.rate = 100

\* Two MAG emissions 100 ticks apart after `$RATE,1*` has set the rate to 1.
C6_Witness ==
    /\ lastGap.on
    /\ lastGap.rate = 1
    /\ lastGap.ticks = 100
    /\ wire = <<>>

\* Decimal texts of integers that are not allowed rates.
RejectedTexts ==
    {<<"3">>, <<"7">>, <<"1", "1">>, <<"-", "1">>, <<"6", "5", "5", "3", "6">>}

\* C7: when the main loop has consumed the '*' of a RATE frame whose payload
\* is the decimal text of an integer outside {0,1,2,4,5,10}, the output
\* buffer holds what it held before followed by the seven bytes of
\* `$ERR,1*`, and the telemetry rate is what it was before.
C7_InvalidRateAnswered ==
    (dstep.on /\ dstep.isRate /\ HandledPayload \in RejectedTexts) =>
        /\ Content(UART_output_buff, OUTPUT_BUFF_LEN)
              = Content(dstep.outBefore, OUTPUT_BUFF_LEN)
                    \o <<"$", "E", "R", "R", ",", "1", "*">>
        /\ print_mag_rate = dstep.rateBefore

\* The values is_valid_rate is compared on.
RateProbe == (-3..12) \cup {INT_MIN, INT_MAX}

\* C8: is_valid_rate(v) holds exactly for v in {0,1,2,4,5,10}; the telemetry
\* rate is in that set in every reachable state; a RATE frame whose parsed
\* value is in the set makes the rate that value, and no other step changes
\* the rate.
C8_RateStaysAllowed ==
    /\ [](/\ \A v \in RateProbe : is_valid_rate(v) <=> v \in AllowedRates
          /\ print_mag_rate \in AllowedRates
          /\ (dstep.on /\ dstep.isRate /\ dstep.rate \in AllowedRates)
                => print_mag_rate = dstep.rate)
    /\ [][print_mag_rate' # print_mag_rate =>
            /\ dstep'.on
            /\ dstep'.isRate
            /\ dstep'.rate \in AllowedRates
            /\ print_mag_rate' = dstep'.rate]_vars

\* A RATE frame with an allowed value has just changed the rate.
C8_Witness ==
    /\ dstep.on
    /\ dstep.isRate
    /\ dstep.rate \in AllowedRates
    /\ print_mag_rate = dstep.rate
    /\ print_mag_rate # dstep.rateBefore

\* C10: the write index of the input buffer changes only in steps of the
\* receive handler and its read index only in steps of the main loop; the
\* read index of the output buffer changes only in steps of the transmit
\* handler and its write index only in steps of the main loop.
C10_IndexOwnership ==
    [][/\ UART_input_buff'.write # UART_input_buff.write => ctx' = "rx"
       /\ UART_input_buff'.read # UART_input_buff.read => ctx' = "main"
       /\ UART_output_buff'.read # UART_output_buff.read => ctx' = "tx"
       /\ UART_output_buff'.write # UART_output_buff.write => ctx' = "main"]_vars

\* Each of the four indices has been moved, the transmit handler last.
C10_Witness ==
    /\ ctx = "tx"
    /\ txlog.on
    /\ txlog.sent # <<>>
    /\ UART_input_buff.write # 0
    /\ UART_input_buff.read # 0
    /\ UART_output_buff.write # 0
    /\ UART_output_buff.read # 0

----------------------------------------------------------------------------
(* Claims on the scheduler and the command interpreter                     *)

\* The step is the run of the tasks of one tick (main.c:186-227).
TickStep == pc = "tasks" /\ pc' = "drain"

IsYaw(text) == SubSeq(text, 1, 4) = <<"$", "Y", "A", "W">>
IsMag(text) == SubSeq(text, 1, 4) = <<"$", "M", "A", "G">>

YawQueued(texts) == \E i \in DOMAIN texts : IsYaw(texts[i])
MagQueued(texts) == \E i \in DOMAIN texts : IsMag(texts[i])

\* C11: whatever commands arrive, the status indicator toggles exactly on
\* the ticks whose number is a multiple of 50, the acquisition runs exactly
\* on the multiples of 4 and `$YAW,<deg>*` is queued exactly on the
\* multiples of 20; after each tick the three counters hold the tick number
\* modulo their divisor (0 after the task has fired), and they stay within
\* 0..divisor-1.
C11_FixedTasksPeriodic ==
    /\ [](/\ LD2_toggle_counter \in 0..49
          /\ acquire_mag_counter \in 0..3
          /\ print_yaw_counter \in 0..19)
    /\ [][TickStep =>
            /\ (LATG9' # LATG9) <=> ((now + 1) % 50 = 0)
            /\ acquired' <=> ((now + 1) % 4 = 0)
            /\ YawQueued(emitted') <=> ((now + 1) % 20 = 0)
            /\ LD2_toggle_counter' = (now + 1) % 50
            /\ acquire_mag_counter' = (now + 1) % 4
            /\ print_yaw_counter' = (now + 1) % 20]_vars

\* Tick 100 has just run, after the inbound command has arrived: the three
\* tasks have fired and their counters are back at 0.
C11_Witness ==
    /\ pc = "drain"
    /\ ctx = "main"
    /\ now = 99
    /\ wire = <<>>
    /\ acquired
    /\ YawQueued(emitted)
    /\ LD2_toggle_counter = 0
    /\ acquire_mag_counter = 0
    /\ print_yaw_counter = 0

\* C13: a tick that runs while the telemetry rate is 0 queues no MAG frame,
\* while the YAW frame and the acquisition keep their periods of 20 and 4
\* ticks; once a nonzero rate r is in force a MAG frame is queued within
\* 100/r ticks.
C13_ZeroRateSilencesMag ==
    /\ [](print_mag_rate # 0 => waited < 100 \div print_mag_rate)
    /\ [][(TickStep /\ print_mag_rate = 0) =>
            /\ ~MagQueued(emitted')
            /\ YawQueued(emitted') <=> ((now + 1) % 20 = 0)
            /\ acquired' <=> ((now + 1) % 4 = 0)]_vars

\* A tick at rate 0, reached through `$RATE,0*`, has queued the YAW frame
\* alone and has run the acquisition.
C13_Witness ==
    /\ pc = "drain"
    /\ ctx = "main"
    /\ print_mag_rate = 0
    /\ acquired
    /\ Len(emitted) = 1
    /\ IsYaw(emitted[1])

\* C14 (as claimed): every tick adds one to each of the four task counters,
\* the MAG counter included and the ticks at rate 0 included, a counter
\* whose task fires being reset to 0 instead; the MAG counter stays within
\* 0..99.
C14_EveryCounterCounts ==
    /\ [](print_mag_counter \in 0..99)
    /\ [][TickStep =>
            /\ LD2_toggle_counter' \in {LD2_toggle_counter + 1, 0}
            /\ acquire_mag_counter' \in {acquire_mag_counter + 1, 0}
            /\ print_yaw_counter' \in {print_yaw_counter + 1, 0}
            /\ \/ print_mag_counter' = print_mag_counter + 1
               \/ MagQueued(emitted') /\ print_mag_counter' = 0]_vars

\* Payloads that are not the decimal text of an allowed rate: texts of other
\* integers, the empty payload and a payload with a byte that is no digit.
NotRateTexts == RejectedTexts \cup {<<>>, <<":">>}

\* C16 (as claimed): when the main loop has consumed the '*' of a RATE frame
\* whose payload is not the decimal text of one of 0, 1, 2, 4, 5, 10 (the
\* empty payload of `$RATE*` and `$RATE,*` and the payload ":" included),
\* the telemetry rate is what it was and `$ERR,1*` has been queued.
C16_MalformedRateRejected ==
    (dstep.on /\ dstep.isRate /\ HandledPayload \in NotRateTexts) =>
        /\ print_mag_rate = dstep.rateBefore
        /\ Content(UART_output_buff, OUTPUT_BUFF_LEN)
              = Content(dstep.outBefore, OUTPUT_BUFF_LEN)
                    \o <<"$", "E", "R", "R", ",", "1", "*">>

\* The type of the frame the main loop has just handled.
HandledType == msg_type(pstate)

\* C20: the drain iteration that completes a frame whose type is not "RATE"
\* leaves the telemetry rate, the four scheduler counters and the output
\* buffer as they were.
C20_UnknownTypeIgnored ==
    [][(dstep'.on /\ ret' = NEW_MESSAGE
            /\ msg_type(pstate') # <<"R", "A", "T", "E">>) =>
          UNCHANGED <<print_mag_rate, LD2_toggle_counter, acquire_mag_counter,
                      print_mag_counter, print_yaw_counter, UART_output_buff>>]_vars

\* The frame `$RAT,2*` has just been completed.
C20_Witness ==
    /\ dstep.on
    /\ dstep.status = NEW_MESSAGE
    /\ HandledType = <<"R", "A", "T">>
    /\ HandledPayload = <<"2">>
    /\ print_mag_rate = 5

----------------------------------------------------------------------------
(* Claims on the formatter and on the size of the output ring              *)

\* C17 (as claimed): for every averaged reading with x and y in -4096..4095
\* and z in -16384..16383 and every heading in -180..180, the rendered MAG
\* text and the rendered YAW text, each with its terminator, fit in the 20
\* bytes of output_str.
C17_RenderedTextFits ==
    \A i \in DOMAIN emitted : Len(emitted[i]) + 1 <= OUTPUT_STR_LEN

----------------------------------------------------------------------------
(* Claims on the transmit handler                                          *)

\* The smaller of two numbers.
Least(a, b) == IF a <= b THEN a ELSE b

\* C12: an activation of the transmit handler that finds the output buffer
\* empty raises the manual-trigger flag, sends nothing and leaves the buffer
\* as it was; one that finds n bytes stored, the transmit path having room
\* for r, sends the oldest min(n, r) bytes in the order they were queued,
\* advances the read index by that number and leaves the write index and
\* the bytes alone, so that the read index never passes the write index.
C12_TransmitHandler ==
    txlog.on =>
        LET before == txlog.before
            n == Stored(before, OUTPUT_BUFF_LEN)
            k == Least(n, txlog.room)
        IN  IF before.read = before.write
            THEN /\ UART_INTERRUPT_TX_MANUAL_TRIG = 1
                 /\ txlog.sent = <<>>
                 /\ UART_output_buff = before
            ELSE /\ txlog.sent = SubSeq(Content(before, OUTPUT_BUFF_LEN), 1, k)
                 /\ UART_output_buff.read = (before.read + k) % OUTPUT_BUFF_LEN
                 /\ UART_output_buff.write = before.write
                 /\ UART_output_buff.buff = before.buff
                 /\ Stored(UART_output_buff, OUTPUT_BUFF_LEN) = n - k

\* The handler has found 3 bytes stored across the end of the array and room
\* for 4: it has sent the 3 and emptied the buffer.
C12_Witness ==
    /\ txlog.on
    /\ txlog.room = 4
    /\ Len(txlog.sent) = 3
    /\ txlog.before.write < txlog.before.read
    /\ UART_output_buff.read = UART_output_buff.write

----------------------------------------------------------------------------
(* Claims on the input ring at the granularity of single steps             *)

\* The bytes stored and not yet handed to parse_byte.
Pending == SubSeq(stored, Len(handed) + 1, Len(stored))

\* C19: whatever way activations of the receive handler fall between the
\* steps of the drain loop (test, load of the slot, parse_byte, advance of
\* the read index), the bytes handed to parse_byte are the bytes the handler
\* stored, in their order and each once: what was handed is a prefix of
\* what was stored, and the bytes stored and not yet handed are exactly the
\* bytes the buffer holds (after the byte just handed, while its slot is
\* not yet released), so that none was overwritten, none is handed twice
\* and no slot is read that was not written.
C19_HandedIsStored ==
    /\ Len(handed) <= Len(stored)
    /\ handed = SubSeq(stored, 1, Len(handed))
    /\ Content(UART_input_buff, INPUT_BUFF_LEN)
           = IF pc = "advance" THEN <<fed>> \o Pending ELSE Pending
    /\ pc = "parse" => Pending # <<>> /\ fed = Pending[1]

\* The receive handler has run between the load of a slot and the call of
\* parse_byte: it has filled the buffer, the write index having gone round
\* the array, and has dropped a byte of the stream.
C19_Witness ==
    /\ pc = "parse"
    /\ ctx = "rx"
    /\ Len(handed) >= 3
    /\ UART_input_buff.write < UART_input_buff.read
    /\ Stored(UART_input_buff, INPUT_BUFF_LEN) = INPUT_BUFF_LEN - 1
    /\ Len(stored) + Len(wire) < Len(FineStream)

====
